---- MODULE Spec2Model ----
(***************************************************************************)
(* Model of apps/function-runtime/python/server.py: the load / invoke /    *)
(* reload lifecycle of the single-function runtime server.                 *)
(*                                                                         *)
(* Text is modelled at two grains.  Messages (load errors, fault messages) *)
(* are sequences of words, so that "the message mentions X" is a computed  *)
(* containment test.  Captured output is a sequence of characters, so that *)
(* strip() and split('\n') are computed as the code computes them.         *)
(* importlib's exec_module is taken to execute the current content of the  *)
(* source file.                                                            *)
(***************************************************************************)
EXTENDS Integers, Sequences, FiniteSets, TLC

(***************************************************************************)
(* Bounds                                                                  *)
(***************************************************************************)
\* number of module objects (load generations) the model creates
MaxModules == 2
\* clock readings, in ticks
MaxTime == 2

(***************************************************************************)
(* Configuration (server.py:24-26)                                         *)
(***************************************************************************)
FUNCTION_CODE_PATH == "/function/code.py"
FUNCTION_HANDLER == "handler"
\* clock ticks per millisecond: time.time() is finer than the reported unit
TicksPerMs == 2

(***************************************************************************)
(* Python values                                                           *)
(***************************************************************************)
\* None, for a slot that holds None or a str
None == [null |-> TRUE, text |-> <<>>]
Str(words) == [null |-> FALSE, text |-> words]
\* Python truthiness of None-or-str
Truthy(v) == ~v.null /\ v.text # <<>>
\* "x or y"
PyOr(v, w) == IF Truthy(v) THEN v ELSE w

\* phrase occurs in msg (both word sequences)
Mentions(msg, phrase) ==
  \E i \in 1..(Len(msg) - Len(phrase) + 1) :
      SubSeq(msg, i, i + Len(phrase) - 1) = phrase

\* the object held by handler_func: None, a function or a non-callable object
\* of a given module generation
NoneObj == [kind |-> "None", gen |-> 0, beh |-> 0]
FunctionObj(g, b) == [kind |-> "function", gen |-> g, beh |-> b]
PlainObj(g) == [kind |-> "object", gen |-> g, beh |-> 0]
callable(o) == o.kind = "function"

(***************************************************************************)
(* Handler behaviours: what an entry point does when called.               *)
(*   writes : the writes to sys.stdout / sys.stderr, in order              *)
(*   rebind : the handler assigns its own object to sys.stdout             *)
(*   fault  : it raises after its writes, with message msg                 *)
(*   exits  : what it raises is not an Exception (SystemExit of sys.exit(),*)
(*            KeyboardInterrupt)                                           *)
(*   ser, ret : the return value and whether json.dumps accepts it         *)
(***************************************************************************)
Beh(w, rb, f, m, s, r) ==
  [writes |-> w, rebind |-> rb, fault |-> f, msg |-> m, ser |-> s, ret |-> r,
   exits |-> FALSE]
Hello == <<"h", "i", "\n">>
Behaviour(b) ==
  CASE b = 1 -> Beh(<<>>, FALSE, FALSE, <<>>, TRUE, 1)
    [] b = 2 -> Beh(<< <<"err", <<"e", "\n">> >>, <<"out", <<"a", "\n", "b">> >>,
                       <<"err", <<"f", "\n">> >>, <<"out", <<"\n">> >> >>,
                    FALSE, FALSE, <<>>, TRUE, 2)
    [] b = 3 -> Beh(<< <<"out", Hello>> >>, FALSE, TRUE, <<"boom">>, TRUE, 0)
    [] b = 4 -> Beh(<<>>, FALSE, FALSE, <<>>, FALSE, 0)
    [] b = 6 -> [Beh(<< <<"out", Hello>> >>, FALSE, TRUE, <<>>, TRUE, 0)
                   EXCEPT !.exits = TRUE]
    [] OTHER -> Beh(<< <<"out", Hello>> >>, TRUE, FALSE, <<>>, TRUE, 2)
Behaviours == 1..6

(***************************************************************************)
(* Function sources: what executing the module does.                       *)
(*   top  : "ok", or "raise" when the module's code raises (syntax error,  *)
(*          fault in top-level code) with str(e) = msg, or "exit" when     *)
(*          what it raises is not an Exception (sys.exit() at top level)   *)
(*   attr : what the entry-point name is bound to in the module            *)
(***************************************************************************)
FnSrc(b) == [top |-> "ok", msg |-> <<>>, attr |-> "function", beh |-> b]
NoHandlerSrc == [top |-> "ok", msg |-> <<>>, attr |-> "absent", beh |-> 0]
ObjSrc == [top |-> "ok", msg |-> <<>>, attr |-> "object", beh |-> 0]
NoneSrc == [top |-> "ok", msg |-> <<>>, attr |-> "None", beh |-> 0]
RaiseSrc(m) == [top |-> "raise", msg |-> m, attr |-> "absent", beh |-> 0]
ExitSrc == [top |-> "exit", msg |-> <<>>, attr |-> "absent", beh |-> 0]
ExecMsgs == {<<>>, <<"invalid", "syntax">>}
ValidSources == {FnSrc(b) : b \in Behaviours}
Sources ==
  ValidSources \cup {NoHandlerSrc, ObjSrc, NoneSrc, ExitSrc}
    \cup {RaiseSrc(m) : m \in ExecMsgs}
\* an empty file is a module that defines nothing
EmptySrc == NoHandlerSrc

\* the function source file
NoFile == [exists |-> FALSE, src |-> EmptySrc]
FileOf(s) == [exists |-> TRUE, src |-> s]
Files == {NoFile} \cup {FileOf(s) : s \in Sources}

(***************************************************************************)
(* Messages                                                                *)
(***************************************************************************)
NotFoundMsg == <<"Function", "code", "not", "found", "at", FUNCTION_CODE_PATH>>
HandlerMissingMsgNoName == <<"Handler", "not", "found", "in", "module">>
HandlerMissingMsg ==
  <<"Handler", "'", FUNCTION_HANDLER, "'", "not", "found", "in", "module">>
NotCallableMsg == <<"Handler", "'", FUNCTION_HANDLER, "'", "is", "not", "callable">>
NotLoadedMsg == <<"Function", "not", "loaded">>
MissingCodeMsg == <<"Missing", "code", "field">>

(***************************************************************************)
(* JSON request bodies                                                     *)
(*   len   : the Content-Length header: "zero" (absent or 0, the body then *)
(*           defaults to '{}'), "ok", or "bad" (int() raises)              *)
(*   valid : json.loads accepts the body                                   *)
(***************************************************************************)
JNum(n) == [t |-> "number", items |-> <<>>, n |-> n]
JObj(items) == [t |-> "object", items |-> items, n |-> 0]
HasKey(j, k) == \E i \in 1..Len(j.items) : j.items[i][1] = k
ValueOf(j, k) == j.items[CHOOSE i \in 1..Len(j.items) : j.items[i][1] = k][2]
Raw(l, v, j) == [len |-> l, valid |-> v, json |-> j]
InvokeBodies ==
  { Raw("zero", TRUE, JObj(<<>>)),
    Raw("ok", TRUE, JObj(<< <<"event", 1>> >>)),
    Raw("ok", TRUE, JObj(<< <<"x", 1>> >>)),
    Raw("ok", TRUE, JNum(1)),
    Raw("ok", FALSE, JNum(0)),
    Raw("bad", TRUE, JObj(<<>>)) }

\* the value of the `code` field of a /write-code body
CodeStr(s) == [t |-> "str", empty |-> FALSE, src |-> s]
CodeEmptyStr == [t |-> "str", empty |-> TRUE, src |-> EmptySrc]
CodeNull == [t |-> "null", empty |-> TRUE, src |-> EmptySrc]
CodeNumber == [t |-> "number", empty |-> FALSE, src |-> EmptySrc]
WObj(has, c) == [t |-> "object", hasCode |-> has, code |-> c]
WScalar == [t |-> "number", hasCode |-> FALSE, code |-> CodeNull]
WriteBodies ==
  { Raw("ok", TRUE, WObj(TRUE, CodeStr(s))) : s \in Sources } \cup
  { Raw("zero", TRUE, WObj(FALSE, CodeNull)),
    Raw("ok", TRUE, WObj(FALSE, CodeNull)),
    Raw("ok", TRUE, WObj(TRUE, CodeEmptyStr)),
    Raw("ok", TRUE, WObj(TRUE, CodeNull)),
    Raw("ok", TRUE, WObj(TRUE, CodeNumber)),
    Raw("ok", TRUE, WScalar),
    Raw("ok", FALSE, WScalar),
    Raw("bad", TRUE, WObj(FALSE, CodeNull)) }
\* a /write-code request: its body, and whether opening the file for writing fails
WriteRequests ==
  { <<body, FALSE>> : body \in WriteBodies } \cup
  { <<Raw("ok", TRUE, WObj(TRUE, CodeStr(FnSrc(1)))), TRUE>> }
NoBody == Raw("zero", TRUE, JObj(<<>>))

(***************************************************************************)
(* State                                                                   *)
(***************************************************************************)
VARIABLES
  file,          \* the function source file at FUNCTION_CODE_PATH
  handler_func,  \* server.py:28
  load_error,    \* server.py:29
  modules,       \* number of module objects created by load_function
  sys_stdout,    \* the object bound to sys.stdout
  sys_stderr,    \* the object bound to sys.stderr
  pc,            \* "boot", "idle", "invoking" (inside the handler call) or
                 \* "stopped" (the process has ended)
  inv,           \* locals of the invocation in flight
  req,           \* the request being, or last, served
  wire,          \* what was sent on the connection for req, in order
  load_ran,      \* load_function calls made while serving req, with results
  called,        \* calls of handler_func made while serving req
  printed,       \* stream objects the runtime's own messages went to (req)
  attempt,       \* history: the most recent load attempt, what it read and found
  latest         \* history: the most recent successful load

vars ==
  <<file, handler_func, load_error, modules, sys_stdout, sys_stderr, pc, inv,
    req, wire, load_ran, called, printed, attempt, latest>>

OrigStdout == "stdout"
OrigStderr == "stderr"
CaptureBuffer == "StringIO"
UserStream == "user"

(***************************************************************************)
(* load_function (server.py:32-69)                                         *)
(***************************************************************************)
\*   escaped : what the module's code raised went past load_function
LoadOutcome(h, e, g, ok) ==
  [handler_func |-> h, load_error |-> e, modules |-> g, ok |-> ok,
   escaped |-> FALSE]
LoadEscapes(h, e, g) ==
  [handler_func |-> h, load_error |-> e, modules |-> g, ok |-> FALSE,
   escaped |-> TRUE]

\* getattr(module, FUNCTION_HANDLER) for a module of generation g
getattr(src, g) ==
  CASE src.attr = "function" -> FunctionObj(g, src.beh)
    [] src.attr = "object" -> PlainObj(g)
    [] OTHER -> NoneObj

\* mutant: a successful load leaves the recorded error in place
load_function_keeps_error(f, h, e, g) ==
  IF ~f.exists THEN LoadOutcome(h, Str(NotFoundMsg), g, FALSE)
  ELSE IF f.src.top = "raise" THEN LoadOutcome(h, Str(f.src.msg), g + 1, FALSE)
  ELSE IF f.src.attr = "absent"
       THEN LoadOutcome(h, Str(HandlerMissingMsg), g + 1, FALSE)
  ELSE IF ~callable(getattr(f.src, g + 1))
       THEN LoadOutcome(getattr(f.src, g + 1), Str(NotCallableMsg), g + 1, FALSE)
  ELSE LoadOutcome(getattr(f.src, g + 1), e, g + 1, TRUE)

\* mutant: the module stays cached once imported, a reload reuses the entry
\* point it already has
load_function_cached(f, h, e, g) ==
  IF ~f.exists THEN LoadOutcome(h, Str(NotFoundMsg), g, FALSE)
  ELSE IF callable(h) THEN LoadOutcome(h, None, g, TRUE)
  ELSE IF f.src.top = "raise" THEN LoadOutcome(h, Str(f.src.msg), g + 1, FALSE)
  ELSE IF f.src.attr = "absent"
       THEN LoadOutcome(h, Str(HandlerMissingMsg), g + 1, FALSE)
  ELSE IF ~callable(getattr(f.src, g + 1))
       THEN LoadOutcome(getattr(f.src, g + 1), Str(NotCallableMsg), g + 1, FALSE)
  ELSE LoadOutcome(getattr(f.src, g + 1), None, g + 1, TRUE)

\* mutant: every failed load empties the slot
load_function_resets_slot(f, h, e, g) ==
  IF ~f.exists THEN LoadOutcome(NoneObj, Str(NotFoundMsg), g, FALSE)
  ELSE IF f.src.top = "exit" THEN LoadEscapes(h, e, g + 1)
  ELSE IF f.src.top = "raise"
       THEN LoadOutcome(NoneObj, Str(f.src.msg), g + 1, FALSE)
  ELSE IF f.src.attr = "absent"
       THEN LoadOutcome(NoneObj, Str(HandlerMissingMsg), g + 1, FALSE)
  ELSE IF ~callable(getattr(f.src, g + 1))
       THEN LoadOutcome(NoneObj, Str(NotCallableMsg), g + 1, FALSE)
  ELSE LoadOutcome(getattr(f.src, g + 1), None, g + 1, TRUE)

\* mutant: a missing file is reported by the return value only, no error is
\* recorded
load_function_silent_missing(f, h, e, g) ==
  IF ~f.exists THEN LoadOutcome(h, e, g, FALSE)
  ELSE IF f.src.top = "exit" THEN LoadEscapes(h, e, g + 1)
  ELSE IF f.src.top = "raise" THEN LoadOutcome(h, Str(f.src.msg), g + 1, FALSE)
  ELSE IF f.src.attr = "absent"
       THEN LoadOutcome(h, Str(HandlerMissingMsg), g + 1, FALSE)
  ELSE IF ~callable(getattr(f.src, g + 1))
       THEN LoadOutcome(getattr(f.src, g + 1), Str(NotCallableMsg), g + 1, FALSE)
  ELSE LoadOutcome(getattr(f.src, g + 1), None, g + 1, TRUE)

\* f: the source file, h: handler_func, e: load_error, g: modules
load_function(f, h, e, g) ==
  IF ~f.exists
  THEN \* 37-40: handler_func is not assigned
       LoadOutcome(h, Str(NotFoundMsg), g, FALSE)
  ELSE IF f.src.top = "exit"
  THEN \* 50 raises what "except Exception" (65) does not catch
       LoadEscapes(h, e, g + 1)
  ELSE IF f.src.top = "raise"
  THEN \* 50 raises, 65-69
       LoadOutcome(h, Str(f.src.msg), g + 1, FALSE)
  ELSE IF f.src.attr = "absent"
  THEN \* 53-54 raises, 65-69
       LoadOutcome(h, Str(HandlerMissingMsg), g + 1, FALSE)
  ELSE IF ~callable(getattr(f.src, g + 1))
  THEN \* 56 has assigned handler_func, 58-59 raises, 65-69
       LoadOutcome(getattr(f.src, g + 1), Str(NotCallableMsg), g + 1, FALSE)
  ELSE \* 56-63
       LoadOutcome(getattr(f.src, g + 1), None, g + 1, TRUE)

\* the stream a load's closing message is printed to (62, 67-68)
LoadPrint(out) ==
  IF out.escaped THEN {} ELSE IF out.ok THEN {sys_stdout} ELSE {sys_stderr}

\* the history kept about load attempts: f is the file the attempt read,
\* h0 the kind of object it found in handler_func, e0 whether it found a
\* recorded load error
\*   src, gen : the source it read and the module object it created
\*   replaced : it took the place of a loaded entry point of another source
NoLatest == [any |-> FALSE, src |-> EmptySrc, gen |-> 0, replaced |-> FALSE]
NoAttempt ==
  [made |-> FALSE, ok |-> FALSE, file |-> NoFile, h0 |-> "None", e0 |-> FALSE]
NoteLoad(out, f) ==
  /\ attempt' = [made |-> TRUE, ok |-> out.ok, file |-> f,
                  h0 |-> handler_func.kind, e0 |-> ~load_error.null]
  /\ latest' = IF out.ok
                THEN [any |-> TRUE, src |-> f.src, gen |-> out.modules,
                      replaced |-> latest.any /\ latest.src # f.src]
                ELSE latest

\* a load creates a module object whenever the file exists
CanLoad(f) == f.exists => modules < MaxModules

(***************************************************************************)
(* Responses (server.py:79-84)                                             *)
(***************************************************************************)
Sent(code, body) == [http |-> code, complete |-> TRUE, body |-> body]
\* status line and headers went out, json.dumps then raised
HeadersOnly(code) == [http |-> code, complete |-> FALSE, body |-> [unsent |-> TRUE]]
NotFoundBody == [error |-> Str(<<"Not", "found">>), endpoints |-> TRUE]
\* mutant: health reports the function's state as its own status
HealthBodyDegraded(h, e) ==
  [status |-> IF e.null THEN "healthy" ELSE "degraded",
   handler |-> FUNCTION_HANDLER, codeLoaded |-> (h.kind # "None"), error |-> e]
\* 89-93
HealthBody(h, e) ==
  [status |-> "healthy", handler |-> FUNCTION_HANDLER,
   codeLoaded |-> (h.kind # "None"), error |-> e]
LoadBody(out) == [success |-> out.ok, error |-> out.load_error]
NoInv == [start_time |-> 0, event |-> JNum(0), old_stdout |-> OrigStdout,
          old_stderr |-> OrigStderr]

\* mutant: a threading server, a request is taken while an invocation is in
\* its handler call
AcceptingThreaded == pc \in {"idle", "invoking"}

\* serve_forever of an HTTPServer (228, 238) takes the next request only when
\* the handler of the previous one has returned
Accepting == pc = "idle"

\* what escapes load_function escapes run_server (235) or, through do_POST,
\* serve_forever (238): the process ends
AfterLoad(out) == IF out.escaped THEN "stopped" ELSE "idle"

Init ==
  /\ file \in Files
  /\ handler_func = NoneObj
  /\ load_error = None
  /\ modules = 0
  /\ sys_stdout = OrigStdout
  /\ sys_stderr = OrigStderr
  /\ pc = "boot"
  /\ inv = NoInv
  /\ req = [op |-> "none", body |-> NoBody]
  /\ wire = <<>>
  /\ load_ran = <<>>
  /\ called = <<>>
  /\ printed = {}
  /\ attempt = NoAttempt
  /\ latest = NoLatest

\* run_server: the startup load (server.py:234-235), then serve_forever
Startup ==
  /\ pc = "boot"
  /\ LET out == load_function(file, handler_func, load_error, modules) IN
       /\ handler_func' = out.handler_func
       /\ load_error' = out.load_error
       /\ modules' = out.modules
       /\ load_ran' = <<out.ok>>
       /\ printed' = {sys_stdout} \cup LoadPrint(out)
       /\ NoteLoad(out, file)
       /\ pc' = AfterLoad(out)
  /\ req' = [op |-> "startup", body |-> NoBody]
  /\ UNCHANGED <<file, sys_stdout, sys_stderr, inv, wire, called>>

\* GET /health (server.py:88-94)
Health ==
  /\ Accepting
  /\ req' = [op |-> "health", body |-> NoBody]
  /\ wire' = <<Sent(200, HealthBody(handler_func, load_error))>>
  /\ load_ran' = <<>>
  /\ called' = <<>>
  /\ printed' = {sys_stdout}
  /\ UNCHANGED <<file, handler_func, load_error, modules, sys_stdout, sys_stderr,
                 pc, inv, attempt, latest>>

\* any other path, GET or POST (server.py:95-103, 214-222)
NotFound ==
  /\ Accepting
  /\ req' = [op |-> "other", body |-> NoBody]
  /\ wire' = <<Sent(404, NotFoundBody)>>
  /\ load_ran' = <<>>
  /\ called' = <<>>
  /\ printed' = {sys_stdout}
  /\ UNCHANGED <<file, handler_func, load_error, modules, sys_stdout, sys_stderr,
                 pc, inv, attempt, latest>>

\* POST /reload (server.py:134-139)
Reload ==
  /\ Accepting
  /\ CanLoad(file)
  /\ LET out == load_function(file, handler_func, load_error, modules) IN
       /\ handler_func' = out.handler_func
       /\ load_error' = out.load_error
       /\ modules' = out.modules
       /\ load_ran' = <<out.ok>>
       /\ printed' = {sys_stdout} \cup LoadPrint(out)
       /\ wire' = IF out.escaped THEN <<>>
                  ELSE <<Sent(IF out.ok THEN 200 ELSE 500, LoadBody(out))>>
       /\ NoteLoad(out, file)
       /\ pc' = IF out.escaped THEN "stopped" ELSE pc
  /\ req' = [op |-> "reload", body |-> NoBody]
  /\ called' = <<>>
  /\ UNCHANGED <<file, sys_stdout, sys_stderr, inv>>

\* the source file is overwritten or removed from outside the server, between
\* two requests
EnvWrite ==
  /\ pc = "idle"
  /\ \E s \in Sources : file' = FileOf(s)
  /\ file' # file
  /\ UNCHANGED <<handler_func, load_error, modules, sys_stdout, sys_stderr, pc,
                 inv, req, wire, load_ran, called, printed, attempt, latest>>

EnvRemove ==
  /\ pc = "idle"
  /\ file.exists
  /\ file' = NoFile
  /\ UNCHANGED <<handler_func, load_error, modules, sys_stdout, sys_stderr, pc,
                 inv, req, wire, load_ran, called, printed, attempt, latest>>

(***************************************************************************)
(* POST /write-code (server.py:107-132)                                    *)
(***************************************************************************)
WriteOutcome(f, out, ran, w) ==
  [file |-> f, out |-> out, loaded |-> ran, wire |-> w]
ErrorOnly(words) == [error |-> Str(words)]

\* mutant: the code is written before the field is checked
write_code_writes_first(body, openFails, f, h, e, g) ==
  LET same == LoadOutcome(h, e, g, FALSE) IN
  IF body.len = "bad" THEN WriteOutcome(f, same, FALSE, <<>>)
  ELSE IF ~body.valid
  THEN WriteOutcome(f, same, FALSE, <<Sent(500, ErrorOnly(<<"JSONDecodeError">>))>>)
  ELSE IF body.json.t # "object"
  THEN WriteOutcome(f, same, FALSE, <<Sent(500, ErrorOnly(<<"AttributeError">>))>>)
  ELSE IF openFails
  THEN WriteOutcome(f, same, FALSE, <<Sent(500, ErrorOnly(<<"OSError">>))>>)
  ELSE IF body.json.code.t # "str"
  THEN WriteOutcome(FileOf(EmptySrc), same, FALSE,
                    <<Sent(500, ErrorOnly(<<"TypeError">>))>>)
  ELSE IF ~body.json.hasCode \/ body.json.code.empty
  THEN WriteOutcome(FileOf(EmptySrc), same, FALSE,
                    <<Sent(400, ErrorOnly(MissingCodeMsg))>>)
  ELSE LET out == load_function(FileOf(body.json.code.src), h, e, g) IN
       WriteOutcome(FileOf(body.json.code.src), out, TRUE,
                    <<Sent(IF out.ok THEN 200 ELSE 500, LoadBody(out))>>)

\* body: the request body, openFails: open(FUNCTION_CODE_PATH, 'w') raises,
\* f, h, e, g: the file, handler_func, load_error, modules
write_code(body, openFails, f, h, e, g) ==
  LET same == LoadOutcome(h, e, g, FALSE) IN
  IF body.len = "bad"
  THEN \* 109: int() raises outside the try, the request gets no response
       WriteOutcome(f, same, FALSE, <<>>)
  ELSE IF ~body.valid
  THEN \* 113 raises, 131-132
       WriteOutcome(f, same, FALSE, <<Sent(500, ErrorOnly(<<"JSONDecodeError">>))>>)
  ELSE IF body.json.t # "object"
  THEN \* 114: data.get raises, 131-132
       WriteOutcome(f, same, FALSE, <<Sent(500, ErrorOnly(<<"AttributeError">>))>>)
  ELSE IF ~body.json.hasCode \/ body.json.code.t = "null" \/ body.json.code.empty
  THEN \* 116-118
       WriteOutcome(f, same, FALSE, <<Sent(400, ErrorOnly(MissingCodeMsg))>>)
  ELSE IF openFails
  THEN \* 121 raises, 131-132
       WriteOutcome(f, same, FALSE, <<Sent(500, ErrorOnly(<<"OSError">>))>>)
  ELSE IF body.json.code.t # "str"
  THEN \* 121 has truncated the file, 122 raises, 131-132
       WriteOutcome(FileOf(EmptySrc), same, FALSE,
                    <<Sent(500, ErrorOnly(<<"TypeError">>))>>)
  ELSE \* 121-130; what escapes load_function (125) is not an Exception and
       \* escapes 131 too
       LET out == load_function(FileOf(body.json.code.src), h, e, g) IN
       WriteOutcome(FileOf(body.json.code.src), out, TRUE,
                    IF out.escaped THEN <<>>
                    ELSE <<Sent(IF out.ok THEN 200 ELSE 500, LoadBody(out))>>)

WriteCode ==
  /\ Accepting
  /\ \E wr \in WriteRequests :
       LET body == wr[1]
           r == write_code(body, wr[2], file, handler_func, load_error, modules) IN
         /\ r.loaded => CanLoad(r.file)
         /\ req' = [op |-> "write-code", body |-> body]
         /\ file' = r.file
         /\ handler_func' = r.out.handler_func
         /\ load_error' = r.out.load_error
         /\ modules' = r.out.modules
         /\ wire' = r.wire
         /\ load_ran' = IF r.loaded THEN <<r.out.ok>> ELSE <<>>
         /\ printed' = IF r.loaded THEN {sys_stdout} \cup LoadPrint(r.out)
                       ELSE IF r.wire = <<>> THEN {} ELSE {sys_stdout}
         /\ IF r.loaded THEN NoteLoad(r.out, r.file)
            ELSE UNCHANGED <<attempt, latest>>
         /\ pc' = IF r.out.escaped THEN "stopped" ELSE pc
  /\ called' = <<>>
  /\ UNCHANGED <<sys_stdout, sys_stderr, inv>>

(***************************************************************************)
(* Output capture (server.py:164-186)                                      *)
(***************************************************************************)
Whitespace == {" ", "\n", "\t"}

\* everything the handler wrote to one channel, as StringIO.getvalue() gives it
RECURSIVE getvalue(_, _)
getvalue(writes, ch) ==
  IF writes = <<>> THEN <<>>
  ELSE (IF Head(writes)[1] = ch THEN Head(writes)[2] ELSE <<>>)
         \o getvalue(Tail(writes), ch)

RECURSIVE lstrip(_)
lstrip(s) ==
  IF s # <<>> /\ Head(s) \in Whitespace THEN lstrip(Tail(s)) ELSE s

RECURSIVE rstrip(_)
rstrip(s) ==
  IF s # <<>> /\ s[Len(s)] \in Whitespace THEN rstrip(SubSeq(s, 1, Len(s) - 1)) ELSE s

\* str.strip()
strip(s) == rstrip(lstrip(s))

\* str.split('\n'): the pieces between line breaks, at least one piece
RECURSIVE split(_, _)
split(s, cur) ==
  IF s = <<>> THEN <<cur>>
  ELSE IF Head(s) = "\n" THEN <<cur>> \o split(Tail(s), <<>>)
  ELSE split(Tail(s), Append(cur, Head(s)))

ErrorMarker == "[ERROR] "
MarkAll(lines) == [i \in 1..Len(lines) |-> <<ErrorMarker>> \o lines[i]]

\* mutant: the error channel's lines are put first
capture_logs_errors_first(writes) ==
  LET stdout_value == getvalue(writes, "out")
      stderr_value == getvalue(writes, "err")
  IN (IF stderr_value # <<>> THEN MarkAll(split(strip(stderr_value), <<>>))
      ELSE <<>>)
       \o (IF stdout_value # <<>> THEN split(strip(stdout_value), <<>>) ELSE <<>>)

\* 175-181: the log lines of a handler call that returned
capture_logs(writes) ==
  LET stdout_value == getvalue(writes, "out")
      stderr_value == getvalue(writes, "err")
  IN (IF stdout_value # <<>> THEN split(strip(stdout_value), <<>>) ELSE <<>>)
       \o (IF stderr_value # <<>> THEN MarkAll(split(strip(stderr_value), <<>>))
           ELSE <<>>)

(***************************************************************************)
(* POST /invoke (server.py:141-212)                                        *)
(***************************************************************************)
Times == 0..MaxTime

\* int((t1 - t0) * 1000), with the clock in ticks: int() truncates toward zero
duration_ms(t0, t1) ==
  IF t1 >= t0 THEN (t1 - t0) \div TicksPerMs ELSE -((t0 - t1) \div TicksPerMs)

\* mutant: the fixed text, whatever load error is recorded
NotLoadedBodyFixedText(e) == [status |-> "error", error |-> Str(NotLoadedMsg)]
\* 144-147
NotLoadedBody(e) == [status |-> "error", error |-> PyOr(e, Str(NotLoadedMsg))]
ErrorEnvelope(d, words, logs) ==
  [status |-> "error", duration_ms |-> d, error |-> Str(words),
   stack |-> "traceback", logs |-> logs]
SuccessEnvelope(d, b, logs) ==
  [status |-> "success", duration_ms |-> d,
   response |-> [ser |-> b.ser, v |-> b.ret], logs |-> logs]
CallTypeErrorMsg == <<"object", "is", "not", "callable">>

\* 160: parsed.get('event', parsed)
event_of(parsed) ==
  IF HasKey(parsed, "event") THEN JNum(ValueOf(parsed, "event")) ELSE parsed

\* the part of /invoke up to the redirection of the streams (141-168)
\*   entered : the handler call is reached
StartOutcome(entered, w, p) == [entered |-> entered, wire |-> w, printed |-> p]
invoke_start(body, t0, t1, h, e, out, err) ==
  IF h.kind = "None"
  THEN \* 143-148
       StartOutcome(FALSE, <<Sent(500, NotLoadedBody(e))>>, {out})
  ELSE IF body.len = "bad"
  THEN \* 151: int() raises outside the try, the request gets no response
       StartOutcome(FALSE, <<>>, {})
  ELSE IF ~body.valid
  THEN \* 159 raises, 200-212
       StartOutcome(FALSE,
         <<Sent(500, ErrorEnvelope(duration_ms(t0, t1), <<"JSONDecodeError">>, <<>>))>>,
         {out, err})
  ELSE IF body.json.t # "object"
  THEN \* 160: parsed.get raises, 200-212
       StartOutcome(FALSE,
         <<Sent(500, ErrorEnvelope(duration_ms(t0, t1), <<"AttributeError">>, <<>>))>>,
         {out, err})
  ELSE \* 162-168
       StartOutcome(TRUE, <<>>, {out})

\* the request gets as far as taking start_time (154)
TakesStart(body, h) == h.kind # "None" /\ body.len # "bad"

\* the request reads the clock again before the handler call: start_time is
\* taken (154) and the parse fails (201)
ReadsClock(body, h) ==
  h.kind # "None" /\ body.len # "bad" /\ (~body.valid \/ body.json.t # "object")

InvokeStart ==
  /\ Accepting
  /\ \E body \in InvokeBodies :
     \E t0 \in (IF TakesStart(body, handler_func) THEN Times ELSE {0}) :
     \E t1 \in (IF ReadsClock(body, handler_func) THEN Times ELSE {t0}) :
       LET r == invoke_start(body, t0, t1, handler_func, load_error,
                             sys_stdout, sys_stderr) IN
         /\ req' = [op |-> "invoke", body |-> body]
         /\ wire' = r.wire
         /\ printed' = r.printed
         /\ IF r.entered
            THEN /\ inv' = [start_time |-> t0, event |-> event_of(body.json),
                            old_stdout |-> sys_stdout, old_stderr |-> sys_stderr]
                 /\ sys_stdout' = CaptureBuffer
                 /\ sys_stderr' = CaptureBuffer
                 /\ pc' = "invoking"
            ELSE UNCHANGED <<inv, sys_stdout, sys_stderr, pc>>
  /\ load_ran' = <<>>
  /\ called' = <<>>
  /\ UNCHANGED <<file, handler_func, load_error, modules, attempt, latest>>

\* the handler call and what follows it (170-212)
\*   h : handler_func, iv : the invocation's locals, t1 : the clock reading
\*   that the reported duration is taken from (188, or 201 on a fault)
\*   alive : nothing escaped do_POST, the server goes on serving
FinishOutcome(w, c, p, out, err) ==
  [wire |-> w, called |-> c, printed |-> p, sys_stdout |-> out, sys_stderr |-> err,
   alive |-> TRUE]
FinishEscapes(c, out, err) ==
  [wire |-> <<>>, called |-> c, printed |-> {}, sys_stdout |-> out,
   sys_stderr |-> err, alive |-> FALSE]

\* mutant: the streams are restored after the logs are read, not in a finally
invoke_finish_no_finally(h, iv, t1) ==
  LET b == Behaviour(h.beh)
      call == <<[fn |-> h, arg |-> iv.event]>>
      logs == capture_logs(b.writes)
      d == duration_ms(iv.start_time, t1)
  IN
  IF ~callable(h)
  THEN FinishOutcome(<<Sent(500, ErrorEnvelope(d, CallTypeErrorMsg, <<>>))>>,
                     <<>>, {CaptureBuffer}, CaptureBuffer, CaptureBuffer)
  ELSE IF b.fault
  THEN FinishOutcome(<<Sent(500, ErrorEnvelope(d, b.msg, <<>>))>>,
                     call, {CaptureBuffer}, CaptureBuffer, CaptureBuffer)
  ELSE IF b.rebind
  THEN FinishOutcome(<<Sent(500, ErrorEnvelope(d, <<"AttributeError">>, <<>>))>>,
                     call, {CaptureBuffer}, UserStream, CaptureBuffer)
  ELSE IF ~b.ser
  THEN FinishOutcome(<<HeadersOnly(200),
                       Sent(500, ErrorEnvelope(d, <<"TypeError">>, logs))>>,
                     call, {iv.old_stdout, iv.old_stderr},
                     iv.old_stdout, iv.old_stderr)
  ELSE FinishOutcome(<<Sent(200, SuccessEnvelope(d, b, logs))>>,
                     call, {iv.old_stdout}, iv.old_stdout, iv.old_stderr)

invoke_finish(h, iv, t1) ==
  LET b == Behaviour(h.beh)
      call == <<[fn |-> h, arg |-> iv.event]>>
      logs == capture_logs(b.writes)
      d == duration_ms(iv.start_time, t1)
  IN
  IF ~callable(h)
  THEN \* 172 raises TypeError before any handler code runs, 183-186, 200-212
       FinishOutcome(<<Sent(500, ErrorEnvelope(d, CallTypeErrorMsg, <<>>))>>,
                     <<>>, {iv.old_stdout, iv.old_stderr},
                     iv.old_stdout, iv.old_stderr)
  ELSE IF b.exits
  THEN \* the handler raises what "except Exception" (200) does not catch:
       \* 183-186 run, nothing is sent, it escapes do_POST and serve_forever
       FinishEscapes(call, iv.old_stdout, iv.old_stderr)
  ELSE IF b.fault
  THEN \* the handler raises: 175-181 are skipped, 183-186, 200-212
       FinishOutcome(<<Sent(500, ErrorEnvelope(d, b.msg, <<>>))>>,
                     call, {iv.old_stdout, iv.old_stderr},
                     iv.old_stdout, iv.old_stderr)
  ELSE IF b.rebind
  THEN \* sys.stdout is the handler's object: 175 getvalue raises, 183-186, 200-212
       FinishOutcome(<<Sent(500, ErrorEnvelope(d, <<"AttributeError">>, <<>>))>>,
                     call, {iv.old_stdout, iv.old_stderr},
                     iv.old_stdout, iv.old_stderr)
  ELSE IF ~b.ser
  THEN \* 191: headers are sent, json.dumps raises (84), 200-212
       FinishOutcome(<<HeadersOnly(200),
                       Sent(500, ErrorEnvelope(d, <<"TypeError">>, logs))>>,
                     call, {iv.old_stdout, iv.old_stderr},
                     iv.old_stdout, iv.old_stderr)
  ELSE \* 175-198
       FinishOutcome(<<Sent(200, SuccessEnvelope(d, b, logs))>>,
                     call, {iv.old_stdout}, iv.old_stdout, iv.old_stderr)

InvokeFinish ==
  /\ pc = "invoking"
  /\ \E t1 \in Times :
       LET r == invoke_finish(handler_func, inv, t1) IN
         /\ wire' = r.wire
         /\ called' = r.called
         /\ printed' = printed \cup r.printed
         /\ sys_stdout' = r.sys_stdout
         /\ sys_stderr' = r.sys_stderr
         /\ pc' = IF r.alive THEN "idle" ELSE "stopped"
  /\ inv' = NoInv
  /\ UNCHANGED <<file, handler_func, load_error, modules, req, load_ran,
                 attempt, latest>>

Next ==
  \/ Startup
  \/ Health
  \/ NotFound
  \/ Reload
  \/ WriteCode
  \/ InvokeStart
  \/ InvokeFinish
  \/ EnvWrite
  \/ EnvRemove

Spec == Init /\ [][Next]_vars

(***************************************************************************)
(* Properties                                                              *)
(***************************************************************************)
LastLoadFailed == attempt.made /\ ~attempt.ok
InvokeServed == req.op = "invoke" /\ pc = "idle"
\* the request body parses to a JSON object
ObjectBody == req.body.len # "bad" /\ req.body.valid /\ req.body.json.t = "object"
LastSent == wire[Len(wire)]

\* C1: after any load attempt that fails, from any prior state, the handler
\* slot is absent and GET /health reports codeLoaded:false (a previously
\* loaded handler is discarded).
C1_FailedLoadLeavesSlotAbsent ==
  LastLoadFailed =>
    /\ handler_func.kind = "None"
    /\ req.op = "health" => ~wire[1].body.codeLoaded

\* C2: whenever the most recent load attempt failed, POST /invoke is rejected
\* with a 500 error result and no handler code is executed.
C2_FailedLoadRejectsInvoke ==
  (LastLoadFailed /\ InvokeServed) =>
    /\ called = <<>>
    /\ wire # <<>> => (Len(wire) = 1 /\ wire[1].http = 500
                       /\ wire[1].body.status = "error")

C4_FaultKeepsLogs ==
  (InvokeServed /\ called # <<>> /\ Behaviour(called[1].fn.beh).fault) =>
    /\ LastSent.http = 500
    /\ LastSent.body.logs = capture_logs(Behaviour(called[1].fn.beh).writes)

C6_LoadedIffNoError ==
  (pc # "boot" /\ req.op = "health") =>
    (wire[1].body.codeLoaded <=> wire[1].body.error.null)

\* C7: for every source that exists, loads without error and defines the
\* entry point as a callable, from any prior state, load_function returns
\* true, GET /health then reports codeLoaded:true and error:null, and
\* POST /reload answers 200 {success:true, error:null}.
C7_ValidSourceLoads ==
  (attempt.made /\ attempt.file.exists /\ attempt.file.src \in ValidSources) =>
    /\ attempt.ok
    /\ \A i \in DOMAIN load_ran : load_ran[i]
    /\ callable(handler_func)
    /\ load_error.null
    /\ req.op = "health" =>
         /\ wire[1].http = 200
         /\ wire[1].body.codeLoaded
         /\ wire[1].body.error.null
    /\ req.op = "reload" =>
         wire = <<Sent(200, [success |-> TRUE, error |-> None])>>

\* C7 witness: a reload of a valid source that found a recorded load error.
C7_Witness ==
  /\ req.op = "reload"
  /\ attempt.file.exists
  /\ attempt.file.src \in ValidSources
  /\ attempt.e0
  /\ wire[1].http = 200

\* C8: for every source that loads but does not define the entry-point name,
\* load_function returns false, the recorded error contains the entry-point
\* name, GET /health returns that error and POST /reload answers 500 with
\* success:false and the same error.
C8_MissingEntryPointNamed ==
  (attempt.made /\ attempt.file.exists /\ attempt.file.src.top = "ok"
     /\ attempt.file.src.attr = "absent") =>
    /\ ~attempt.ok
    /\ \A i \in DOMAIN load_ran : ~load_ran[i]
    /\ ~load_error.null
    /\ Mentions(load_error.text, <<FUNCTION_HANDLER>>)
    /\ req.op = "health" => wire[1].body.error = load_error
    /\ req.op = "reload" =>
         wire = <<Sent(500, [success |-> FALSE, error |-> load_error])>>

\* C8 witness: a reload of a source without the entry point, answered 500.
C8_Witness ==
  /\ req.op = "reload"
  /\ attempt.file = FileOf(NoHandlerSrc)
  /\ wire[1].http = 500

C10_StreamsRestored ==
  pc # "invoking" =>
    /\ sys_stdout = OrigStdout
    /\ sys_stderr = OrigStderr
    /\ printed \subseteq {OrigStdout, OrigStderr}

\* C10 witness: an invocation whose handler raised has been served.
C10_Witness ==
  /\ InvokeServed
  /\ called # <<>>
  /\ Behaviour(called[1].fn.beh).fault
  /\ LastSent.http = 500

\* the handler behaviour that the last served invocation ran
Ran == Behaviour(called[1].fn.beh)
Live == pc \in {"idle", "invoking"}

\* C11: every fault the entry point raises during POST /invoke is answered
\* with one 500 envelope carrying error and stack, and the server goes on
\* serving.
C11_HandlerFaultSurvived ==
  (req.op = "invoke" /\ called # <<>> /\ Ran.fault) =>
    /\ Live
    /\ Len(wire) = 1
    /\ wire[1].http = 500
    /\ {"error", "stack"} \subseteq DOMAIN wire[1].body

\* C12: a load that fails, whatever the source's top-level code raised, is
\* recorded as load-error state and leaves the server serving; at /reload and
\* /write-code it is answered 500.
C12_LoadFailureIsState ==
  (load_ran # <<>> /\ ~load_ran[1]) =>
    /\ Live
    /\ ~load_error.null
    /\ req.op \in {"reload", "write-code"} =>
         wire = <<Sent(500, [success |-> FALSE, error |-> load_error])>>

\* C13: an invocation whose handler returned a value that JSON cannot
\* represent is answered with a single 500 error envelope and nothing of a
\* 200 response.
C13_UnserializableIsOneError ==
  (InvokeServed /\ called # <<>> /\ ~Ran.fault /\ ~Ran.rebind /\ ~Ran.ser) =>
    /\ Len(wire) = 1
    /\ wire[1].http = 500
    /\ wire[1].complete
    /\ wire[1].body.status = "error"
    /\ {"error", "stack", "duration_ms", "logs"} \subseteq DOMAIN wire[1].body

\* C14: with a loaded handler, every request body that is valid JSON (an
\* object with an event field, an object without one, a bare value) has the
\* entry point called exactly once, with the event field if the body has one
\* and the whole parsed body otherwise.
C14_EventIsFieldOrBody ==
  (req.op = "invoke" /\ pc # "invoking" /\ req.body.len # "bad"
     /\ req.body.valid /\ callable(handler_func)) =>
    /\ Len(called) = 1
    /\ called[1].fn = handler_func
    /\ called[1].arg =
         IF req.body.json.t = "object" /\ HasKey(req.body.json, "event")
         THEN JNum(ValueOf(req.body.json, "event"))
         ELSE req.body.json

\* C15: a handler that returns a serializable value v is answered 200 with
\* status "success", response v, the captured logs and duration_ms >= 0;
\* duration_ms is >= 0 in every 500 error envelope too.
C15_DurationNonNegative ==
  (InvokeServed /\ called # <<>> /\ wire # <<>>) =>
    /\ LastSent.body.duration_ms >= 0
    /\ (~Ran.fault /\ ~Ran.rebind /\ Ran.ser) =>
         /\ wire[1].http = 200
         /\ wire[1].body.status = "success"
         /\ wire[1].body.response.v = Ran.ret
         /\ wire[1].body.logs = capture_logs(Ran.writes)

\* the lines of a text: its pieces up to each line break, and what follows
\* the last line break if anything does
RECURSIVE LinesOf(_, _)
LinesOf(s, cur) ==
  IF s = <<>> THEN (IF cur = <<>> THEN <<>> ELSE <<cur>>)
  ELSE IF Head(s) = "\n" THEN <<cur>> \o LinesOf(Tail(s), <<>>)
  ELSE LinesOf(Tail(s), Append(cur, Head(s)))
\* the lines a handler wrote to one channel, in write order
RECURSIVE WrittenTo(_, _)
WrittenTo(writes, ch) ==
  IF writes = <<>> THEN <<>>
  ELSE IF writes[Len(writes)][1] = ch
  THEN WrittenTo(SubSeq(writes, 1, Len(writes) - 1), ch) \o writes[Len(writes)][2]
  ELSE WrittenTo(SubSeq(writes, 1, Len(writes) - 1), ch)
Marked(line) == line # <<>> /\ Head(line) = ErrorMarker

\* C16: the logs of an invocation whose handler returned are the lines it
\* wrote to the normal channel, in write order and unmarked, followed by the
\* lines it wrote to the error channel, in write order, each with the [ERROR]
\* marker in front, however the writes to the two channels were interleaved.
C16_NormalLinesThenErrorLines ==
  (InvokeServed /\ called # <<>> /\ ~Ran.fault /\ ~Ran.rebind) =>
    LET out == LinesOf(WrittenTo(Ran.writes, "out"), <<>>)
        err == LinesOf(WrittenTo(Ran.writes, "err"), <<>>)
        logs == LastSent.body.logs
    IN /\ Len(logs) = Len(out) + Len(err)
       /\ \A i \in 1..Len(out) : logs[i] = out[i] /\ ~Marked(logs[i])
       /\ \A i \in 1..Len(err) : logs[Len(out) + i] = <<ErrorMarker>> \o err[i]

\* C16 witness: a handler that wrote to the error channel first and to the
\* two channels in turn has been served, its logs are a, b, then e and f
\* marked.
C16_Witness ==
  /\ InvokeServed
  /\ called # <<>>
  /\ Ran.writes # <<>>
  /\ Ran.writes[1][1] = "err"
  /\ wire[1].http = 200
  /\ wire[1].body.logs =
       << <<"a">>, <<"b">>, <<ErrorMarker, "e">>, <<ErrorMarker, "f">> >>

\* C17: GET /health answers 200 with status "healthy", the configured handler
\* name, codeLoaded and the recorded error in every state it is asked in, and
\* leaves the handler slot, the recorded load error and the source unchanged.
C17_HealthIsPureRead ==
  [][(req'.op = "health" /\ Health) =>
       /\ Len(wire') = 1
       /\ wire'[1].http = 200
       /\ wire'[1].complete
       /\ wire'[1].body.status = "healthy"
       /\ wire'[1].body.handler = FUNCTION_HANDLER
       /\ wire'[1].body.codeLoaded = (handler_func.kind # "None")
       /\ wire'[1].body.error = load_error
       /\ handler_func' = handler_func
       /\ load_error' = load_error
       /\ file' = file
       /\ modules' = modules
       /\ attempt' = attempt
       /\ pc' = pc]_vars

\* C17 witness: health asked after a failed reload over a loaded handler
\* answered 200 healthy with codeLoaded true and the error.
C17_Witness ==
  /\ req.op = "health"
  /\ LastLoadFailed
  /\ wire[1].http = 200
  /\ wire[1].body.status = "healthy"
  /\ wire[1].body.codeLoaded
  /\ ~wire[1].body.error.null

\* C18: one request is processed at a time: while an invocation is in its
\* handler call no other request is taken, the handler slot and the load
\* error do not change, the call that was made is to the handler in the slot
\* when the invocation started, and an invocation starts with the original
\* streams, never with the capture buffers of another one.
C18_OneRequestAtATime ==
  [][/\ pc = "invoking" =>
          /\ pc' # "invoking"
          /\ req' = req
          /\ handler_func' = handler_func
          /\ load_error' = load_error
          /\ \A i \in DOMAIN called' : called'[i].fn = handler_func
     /\ (pc # "invoking" /\ pc' = "invoking") =>
          /\ inv'.old_stdout = OrigStdout
          /\ inv'.old_stderr = OrigStderr
          /\ sys_stdout = OrigStdout
          /\ sys_stderr = OrigStderr]_vars

\* C18 witness: an invocation of a handler that took the place of another
\* one has been answered by the handler in the slot.
C18_Witness ==
  /\ InvokeServed
  /\ latest.replaced
  /\ called # <<>>
  /\ called[1].fn = handler_func
  /\ wire[1].http = 200
  /\ wire[1].complete

\* C19 as stated: a handler slot that is filled stays filled, whatever
\* request follows.
C19_SlotNeverCleared ==
  [][handler_func.kind # "None" => handler_func'.kind # "None"]_vars

\* C19 amended: a filled handler slot is emptied only by a load of a source
\* that binds the entry-point name to None; every other load, failed or not,
\* and every other request leaves it filled.
C19_SlotClearedOnlyByNoneBinding ==
  [][(handler_func.kind # "None" /\ handler_func'.kind = "None") =>
       /\ load_ran' # <<>>
       /\ ~load_ran'[1]
       /\ attempt'.file.exists
       /\ attempt'.file.src.top = "ok"
       /\ attempt'.file.src.attr = "None"]_vars

\* C19 witness: a load of a source that binds the entry-point name to None
\* has found a function in the slot and left the slot empty.
C19_Witness ==
  /\ LastLoadFailed
  /\ load_ran # <<>>
  /\ attempt.h0 = "function"
  /\ attempt.file.src.attr = "None"
  /\ handler_func.kind = "None"

====
